---- MODULE Spec2Model ----
(***************************************************************************)
(* LoggerFactory.get_logger of mephew_python_commons/logger_factory.py,    *)
(* run by several threads against the process-wide logging registry.       *)
(* Every statement of get_logger that reads or writes shared state is one  *)
(* step of the calling thread, so that steps of different threads          *)
(* interleave wherever the factory's lock does not exclude it.             *)
(***************************************************************************)
EXTENDS Integers, Sequences, FiniteSets, TLC

\* ---------------------------------------------------------------- bounds
NumThreads == 2
NumFactories == 2
MaxCalls == 2

Threads == 1..NumThreads
Factories == 1..NumFactories

\* ------------------------------------------------------- logging levels
NOTSET == 0
DEBUG == 10
INFO == 20
WARNING == 30
ERROR == 40
CRITICAL == 50

Levels == {DEBUG, INFO, WARNING, ERROR, CRITICAL}

\* ------------------------------------------------------------- values
None == "None"
NoThread == 0

\* A logging.Formatter object is modelled by its identity; the two class-level
\* defaults carry the formats of their definition:
\*   file:   "%(name)s %(threadName)s; %(asctime)s; %(levelname)s; %(message)s", "%Y-%m-%d %H:%M:%S"
\*   stream: the same fields, "%H:%M:%S"
DEFAULT_FILE_LOG_FORMATTER == "DEFAULT_FILE_LOG_FORMATTER"
DEFAULT_STREAM_LOG_FORMATTER == "DEFAULT_STREAM_LOG_FORMATTER"

\* Formatters a caller passes as overrides.
CustomFileFormatter == "custom_file_formatter"
CustomStreamFormatter == "custom_stream_formatter"

\* The names get_logger is called with; "" is the empty name.
Names == {"", "x"}

\* The log_files_prefix each factory is constructed with.
Prefix(f) == IF f = 1 THEN "app" ELSE "svc"

\* The backup_count each factory is constructed with: factory 1 takes the
\* default, every other factory is given a negative count.
BackupCount(f) == IF f = 1 THEN 7 ELSE -1

\* The keyword overrides a get_logger call passes (None: not passed).
Overrides ==
    { [log_file_name |-> None, error_log_file_name |-> None,
       file_log_formatter |-> None, stream_log_formatter |-> None],
      [log_file_name |-> "custom.log", error_log_file_name |-> None,
       file_log_formatter |-> None, stream_log_formatter |-> None],
      [log_file_name |-> "", error_log_file_name |-> "",
       file_log_formatter |-> None, stream_log_formatter |-> None],
      [log_file_name |-> "custom.log", error_log_file_name |-> "custom.error.log",
       file_log_formatter |-> CustomFileFormatter,
       stream_log_formatter |-> CustomStreamFormatter] }

\* The overrides the logging threads pass: none, or all four.
AllOrNone ==
    {o \in Overrides : (o.log_file_name = None) = (o.stream_log_formatter = None)}

NoArgs ==
    [name |-> None, level |-> NOTSET,
     log_file_name |-> None, error_log_file_name |-> None,
     file_log_formatter |-> None, stream_log_formatter |-> None]


\* No record has been logged.
NoRecord == [logger |-> None, levelno |-> NOTSET, sinks |-> {}]

\* -------------------------------------------------------------- state
VARIABLES
    factories,   \* factory -> its attributes after __init__
    lock,        \* factory -> the thread holding self._lock, or NoThread
    loggerDict,  \* the loggers logging.getLogger has created
    level,       \* logger -> logger.level
    propagate,   \* logger -> logger.propagate
    handlers,    \* logger -> logger.handlers
    pc,          \* thread -> its position in get_logger
    self,        \* thread -> the factory its call goes through
    args,        \* thread -> the arguments of its call
    lowest,      \* logger -> the lowest level a returned call asked for
    calls,       \* number of get_logger calls started
    emitted      \* the last record logged and the handlers that emitted it

vars == <<factories, lock, loggerDict, level, propagate, handlers,
          pc, self, args, lowest, calls, emitted>>

\* ----------------------------------------------------- python helpers
\* Truth value of a str | None or Formatter | None argument, as `or` tests it.
Truthy(v) == v # None /\ v # ""

\* `a or b`
Or(a, b) == IF Truthy(a) THEN a ELSE b

\* logging.getLogger(name): the empty name is the root logger.
getLogger(name) == IF name = "" THEN "root" ELSE name

LoggerKeys == {getLogger(n) : n \in Names}

\* LoggerFactory.__init__
LoggerFactory(log_files_prefix, backup_count) ==
    [log_files_prefix |-> log_files_prefix,
     backup_count |-> backup_count,
     encoding |-> "utf-8",
     file_log_formatter |-> DEFAULT_FILE_LOG_FORMATTER,
     stream_log_formatter |-> DEFAULT_STREAM_LOG_FORMATTER]

\* ------------------------------------------- resolution of the overrides
final_log_file_name(fac, a) ==
    Or(a.log_file_name, fac.log_files_prefix \o ".log")

final_error_log_file_name(fac, a) ==
    Or(a.error_log_file_name, fac.log_files_prefix \o ".error.log")

final_file_formatter(fac, a) ==
    Or(a.file_log_formatter, fac.file_log_formatter)

final_stream_formatter(fac, a) ==
    Or(a.stream_log_formatter, fac.stream_log_formatter)

\* ------------------------------------------------------- the handlers
ConcurrentTimedRotatingFileHandler(filename, when, backupCount, encoding) ==
    [class |-> "ConcurrentTimedRotatingFileHandler",
     filename |-> filename, when |-> when,
     backupCount |-> backupCount, encoding |-> encoding,
     formatter |-> None, level |-> NOTSET]

\* logging.StreamHandler(stream=None) writes to sys.stderr.
StreamHandler(stream) ==
    [class |-> "StreamHandler",
     stream |-> IF stream = None THEN "sys.stderr" ELSE stream,
     formatter |-> None, level |-> NOTSET]

setFormatter(h, fmt) == [h EXCEPT !.formatter = fmt]
setLevel(h, lvl) == [h EXCEPT !.level = lvl]

\* Mutation: the error handler is left without a level of its own.
error_log_file_handler_Unfiltered(fac, a) ==
    setFormatter(
        ConcurrentTimedRotatingFileHandler(
            final_error_log_file_name(fac, a), "midnight",
            fac.backup_count, fac.encoding),
        final_file_formatter(fac, a))

error_log_file_handler(fac, a) ==
    setLevel(
        setFormatter(
            ConcurrentTimedRotatingFileHandler(
                final_error_log_file_name(fac, a), "midnight",
                fac.backup_count, fac.encoding),
            final_file_formatter(fac, a)),
        ERROR)

\* Mutation: the general handler is given the level of the error handler.
general_log_file_handler_ErrorsOnly(fac, a) ==
    setLevel(
        setFormatter(
            ConcurrentTimedRotatingFileHandler(
                final_log_file_name(fac, a), "midnight",
                fac.backup_count, fac.encoding),
            final_file_formatter(fac, a)),
        ERROR)

general_log_file_handler(fac, a) ==
    setFormatter(
        ConcurrentTimedRotatingFileHandler(
            final_log_file_name(fac, a), "midnight",
            fac.backup_count, fac.encoding),
        final_file_formatter(fac, a))

stream_handler(fac, a) ==
    setFormatter(StreamHandler(None), final_stream_formatter(fac, a))

\* ------------------------------------------------------------ initial
Init ==
    /\ factories = [f \in Factories |-> LoggerFactory(Prefix(f), BackupCount(f))]
    /\ lock = [f \in Factories |-> NoThread]
    /\ loggerDict = {"root"}
    /\ level = [k \in LoggerKeys |-> IF k = "root" THEN WARNING ELSE NOTSET]
    /\ propagate = [k \in LoggerKeys |-> TRUE]
    /\ handlers = [k \in LoggerKeys |-> <<>>]
    /\ pc = [t \in Threads |-> "idle"]
    /\ self = [t \in Threads |-> 1]
    /\ args = [t \in Threads |-> NoArgs]
    /\ lowest = [k \in LoggerKeys |-> NOTSET]
    /\ calls = 0
    /\ emitted = NoRecord

\* ------------------------------------------------------------- get_logger
\* The logger thread t's call is about, and the factory it goes through.
Logger(t) == getLogger(args[t].name)
Factory(t) == factories[self[t]]

Goto(t, label) == pc' = [pc EXCEPT ![t] = label]

\* A thread calls factory.get_logger(name, ...) and reaches `with self._lock`.
\* The level and the overrides are local to the call and read by no statement
\* before the lock is held; they are drawn when the body starts (Acquire).
Call(t, f, name) ==
    /\ pc[t] = "idle"
    /\ calls < MaxCalls
    /\ calls' = calls + 1
    /\ self' = [self EXCEPT ![t] = f]
    /\ args' = [args EXCEPT ![t] = [NoArgs EXCEPT !.name = name]]
    /\ Goto(t, "with_lock")
    /\ UNCHANGED <<factories, lock, loggerDict, level, propagate, handlers, lowest, emitted>>

\* Mutation: the lock excludes nobody.
LockFree_ExcludesNobody(f) == TRUE

\* threading.Lock: acquire blocks while another thread holds the lock.
LockFree(f) == lock[f] = NoThread

\* with self._lock: the body starts with level=lv and the overrides o.
Acquire(t, lv, o) ==
    /\ pc[t] = "with_lock"
    /\ LockFree(self[t])
    /\ lock' = [lock EXCEPT ![self[t]] = t]
    /\ args' = [args EXCEPT ![t] =
                  [name |-> args[t].name, level |-> lv,
                   log_file_name |-> o.log_file_name,
                   error_log_file_name |-> o.error_log_file_name,
                   file_log_formatter |-> o.file_log_formatter,
                   stream_log_formatter |-> o.stream_log_formatter]]
    /\ Goto(t, "getLogger")
    /\ UNCHANGED <<factories, loggerDict, level, propagate, handlers,
                   self, lowest, calls, emitted>>

\* logger = logging.getLogger(name): creates the logger on first use.
GetLogger(t) ==
    /\ pc[t] = "getLogger"
    /\ loggerDict' = loggerDict \cup {Logger(t)}
    /\ Goto(t, "if_handlers")
    /\ UNCHANGED <<factories, lock, level, propagate, handlers,
                   self, args, lowest, calls, emitted>>

\* logger.addHandler(h)
addHandler(k, h) == handlers' = [handlers EXCEPT ![k] = Append(@, h)]

\* Mutation: the handlers of the logger are not looked at.
HasHandlers_NotLookedAt(k) == FALSE

\* if logger.handlers:
HasHandlers(k) == handlers[k] # <<>>

\* Mutation: a call that finds sinks on its logger drops them and configures
\* the logger again with its own arguments.
IfHandlers_Reconfigures(t) ==
    /\ pc[t] = "if_handlers"
    /\ handlers' = [handlers EXCEPT ![Logger(t)] = <<>>]
    /\ Goto(t, "setLevel")
    /\ UNCHANGED <<factories, lock, loggerDict, level, propagate,
                   self, args, lowest, calls, emitted>>

IfHandlers(t) ==
    /\ pc[t] = "if_handlers"
    /\ IF HasHandlers(Logger(t))
         THEN Goto(t, "if_level")
         ELSE Goto(t, "setLevel")
    /\ UNCHANGED <<factories, lock, loggerDict, level, propagate, handlers,
                   self, args, lowest, calls, emitted>>

\* Mutation: the level is set whenever it differs from the one asked for.
NeedsLowering_WheneverDifferent(current, lv) == current # lv

\* if logger.level > level:
NeedsLowering(current, lv) == current > lv

\* Mutation: a repeat call applies its formatters to the sinks already attached.
IfLevel_Reformats(t) ==
    /\ pc[t] = "if_level"
    /\ IF NeedsLowering(level[Logger(t)], args[t].level)
         THEN Goto(t, "lower")
         ELSE Goto(t, "return")
    /\ handlers' = [handlers EXCEPT ![Logger(t)] =
           [i \in 1..Len(@) |->
              setFormatter(@[i],
                  IF @[i].class = "StreamHandler"
                    THEN final_stream_formatter(Factory(t), args[t])
                    ELSE final_file_formatter(Factory(t), args[t]))]]
    /\ UNCHANGED <<factories, lock, loggerDict, level, propagate,
                   self, args, lowest, calls, emitted>>

IfLevel(t) ==
    /\ pc[t] = "if_level"
    /\ IF NeedsLowering(level[Logger(t)], args[t].level)
         THEN Goto(t, "lower")
         ELSE Goto(t, "return")
    /\ UNCHANGED <<factories, lock, loggerDict, level, propagate, handlers,
                   self, args, lowest, calls, emitted>>

\* logger.setLevel(level) of an already configured logger
LowerLevel(t) ==
    /\ pc[t] = "lower"
    /\ level' = [level EXCEPT ![Logger(t)] = args[t].level]
    /\ Goto(t, "return")
    /\ UNCHANGED <<factories, lock, loggerDict, propagate, handlers,
                   self, args, lowest, calls, emitted>>

\* min(logger.level, level)
Min(a, b) == IF a < b THEN a ELSE b

\* Mutation: a logger that already has a level of its own is only ever lowered.
SetLevel_OnlyLowers(t) ==
    /\ pc[t] = "setLevel"
    /\ level' = [level EXCEPT ![Logger(t)] =
                   IF @ = NOTSET THEN args[t].level ELSE Min(@, args[t].level)]
    /\ Goto(t, "propagate")
    /\ UNCHANGED <<factories, lock, loggerDict, propagate, handlers,
                   self, args, lowest, calls, emitted>>

\* logger.setLevel(level) of a logger without handlers
SetLevel(t) ==
    /\ pc[t] = "setLevel"
    /\ level' = [level EXCEPT ![Logger(t)] = args[t].level]
    /\ Goto(t, "propagate")
    /\ UNCHANGED <<factories, lock, loggerDict, propagate, handlers,
                   self, args, lowest, calls, emitted>>

\* Mutation: the propagate flag is left as it is.
SetPropagate_LeftAsIs(t) ==
    /\ pc[t] = "propagate"
    /\ Goto(t, "new_error_handler")
    /\ UNCHANGED <<factories, lock, loggerDict, level, propagate, handlers,
                   self, args, lowest, calls, emitted>>

\* logger.propagate = False
SetPropagate(t) ==
    /\ pc[t] = "propagate"
    /\ propagate' = [propagate EXCEPT ![Logger(t)] = FALSE]
    /\ Goto(t, "new_error_handler")
    /\ UNCHANGED <<factories, lock, loggerDict, level, handlers,
                   self, args, lowest, calls, emitted>>

\* Mutation: the error handler is attached as soon as it is built.
NewErrorHandler_AttachedAtOnce(t) ==
    /\ pc[t] = "new_error_handler"
    /\ addHandler(Logger(t), error_log_file_handler(Factory(t), args[t]))
    /\ Goto(t, "new_general_handler")
    /\ UNCHANGED <<factories, lock, loggerDict, level, propagate,
                   self, args, lowest, calls, emitted>>

\* error_log_file_handler = ConcurrentTimedRotatingFileHandler(...), built.
NewErrorHandler(t) ==
    /\ pc[t] = "new_error_handler"
    /\ Goto(t, "new_general_handler")
    /\ UNCHANGED <<factories, lock, loggerDict, level, propagate, handlers,
                   self, args, lowest, calls, emitted>>

\* general_log_file_handler = ConcurrentTimedRotatingFileHandler(...), built.
NewGeneralHandler(t) ==
    /\ pc[t] = "new_general_handler"
    /\ Goto(t, "new_stream_handler")
    /\ UNCHANGED <<factories, lock, loggerDict, level, propagate, handlers,
                   self, args, lowest, calls, emitted>>

\* Mutation: the exception of a constructor leaves the lock held.
RaiseOSError_KeepsLock(t) ==
    /\ pc[t] \in {"new_error_handler", "new_general_handler"}
    /\ args' = [args EXCEPT ![t] = NoArgs]
    /\ self' = [self EXCEPT ![t] = 1]
    /\ Goto(t, "idle")
    /\ UNCHANGED <<factories, lock, loggerDict, level, propagate, handlers,
                   lowest, calls, emitted>>

\* Opening a log file fails: the constructor raises, the with statement
\* releases the lock and the exception reaches the caller.
RaiseOSError(t) ==
    /\ pc[t] \in {"new_error_handler", "new_general_handler"}
    /\ lock' = [lock EXCEPT ![self[t]] = NoThread]
    /\ args' = [args EXCEPT ![t] = NoArgs]
    /\ self' = [self EXCEPT ![t] = 1]
    /\ Goto(t, "idle")
    /\ UNCHANGED <<factories, loggerDict, level, propagate, handlers, lowest, calls, emitted>>

\* stream_handler = logging.StreamHandler()
NewStreamHandler(t) ==
    /\ pc[t] = "new_stream_handler"
    /\ Goto(t, "add_general")
    /\ UNCHANGED <<factories, lock, loggerDict, level, propagate, handlers,
                   self, args, lowest, calls, emitted>>

\* Mutation: the error handler is attached ahead of the general handler.
AddGeneralHandler_ErrorFirst(t) ==
    /\ pc[t] = "add_general"
    /\ addHandler(Logger(t), error_log_file_handler(Factory(t), args[t]))
    /\ Goto(t, "add_error")
    /\ UNCHANGED <<factories, lock, loggerDict, level, propagate,
                   self, args, lowest, calls, emitted>>

\* logger.addHandler(general_log_file_handler)
AddGeneralHandler(t) ==
    /\ pc[t] = "add_general"
    /\ addHandler(Logger(t), general_log_file_handler(Factory(t), args[t]))
    /\ Goto(t, "add_error")
    /\ UNCHANGED <<factories, lock, loggerDict, level, propagate,
                   self, args, lowest, calls, emitted>>

AddErrorHandler(t) ==
    /\ pc[t] = "add_error"
    /\ addHandler(Logger(t), error_log_file_handler(Factory(t), args[t]))
    /\ Goto(t, "add_stream")
    /\ UNCHANGED <<factories, lock, loggerDict, level, propagate,
                   self, args, lowest, calls, emitted>>

AddStreamHandler(t) ==
    /\ pc[t] = "add_stream"
    /\ addHandler(Logger(t), stream_handler(Factory(t), args[t]))
    /\ Goto(t, "return")
    /\ UNCHANGED <<factories, lock, loggerDict, level, propagate,
                   self, args, lowest, calls, emitted>>

\* return logger: the with statement releases the lock.
Return(t) ==
    /\ pc[t] = "return"
    /\ lock' = [lock EXCEPT ![self[t]] = NoThread]
    /\ lowest' = [lowest EXCEPT ![Logger(t)] =
                    IF @ = NOTSET THEN args[t].level ELSE Min(@, args[t].level)]
    /\ args' = [args EXCEPT ![t] = NoArgs]
    /\ self' = [self EXCEPT ![t] = 1]
    /\ Goto(t, "idle")
    /\ UNCHANGED <<factories, loggerDict, level, propagate, handlers, calls, emitted>>

\* ------------------------------------------------------------- logging
\* Logger.getEffectiveLevel: the level of the logger, or of its parent (the
\* root logger) while its own level is NOTSET.
getEffectiveLevel(k) ==
    IF level[k] # NOTSET \/ k = "root" THEN level[k] ELSE level["root"]

\* Logger.isEnabledFor(levelno)
isEnabledFor(k, levelno) == levelno >= getEffectiveLevel(k)

\* The handlers of logger c that take a record of this level, each with the
\* formatter that renders the record for it.
handle(c, levelno) ==
    {<<c, i, handlers[c][i].formatter>> :
        i \in {j \in 1..Len(handlers[c]) : levelno >= handlers[c][j].level}}

\* Logger.callHandlers: the handlers of the logger, those of its parent while
\* it propagates, and logging.lastResort (level WARNING) when there is none.
callHandlers(k, levelno) ==
    LET up == k # "root" /\ propagate[k]
        found == Len(handlers[k]) + (IF up THEN Len(handlers["root"]) ELSE 0)
    IN  IF found = 0
          THEN IF levelno >= WARNING THEN {<<"lastResort", 0, None>>} ELSE {}
          ELSE handle(k, levelno) \cup (IF up THEN handle("root", levelno) ELSE {})

\* Logger.log: nothing is formatted or written unless the level is enabled.
log(k, levelno) ==
    IF isEnabledFor(k, levelno) THEN callHandlers(k, levelno) ELSE {}

\* Mutation: a record is logged under the factories' locks.
Log_UnderFactoryLock(t, k, levelno) ==
    /\ pc[t] = "idle"
    /\ k \in loggerDict
    /\ \A f \in Factories : LockFree(f)
    /\ emitted' = [logger |-> k, levelno |-> levelno, sinks |-> log(k, levelno)]
    /\ UNCHANGED <<factories, lock, loggerDict, level, propagate, handlers,
                   pc, self, args, lowest, calls>>

\* logger.debug / info / warning / error / critical (msg) by a thread that is
\* not inside get_logger, on a logger of the registry.
Log(t, k, levelno) ==
    /\ pc[t] = "idle"
    /\ k \in loggerDict
    /\ emitted' = [logger |-> k, levelno |-> levelno, sinks |-> log(k, levelno)]
    /\ UNCHANGED <<factories, lock, loggerDict, level, propagate, handlers,
                   pc, self, args, lowest, calls>>

\* One step of one thread in the body of get_logger.
Body(t) ==
    \/ GetLogger(t)
    \/ IfHandlers(t)
    \/ IfLevel(t)
    \/ LowerLevel(t)
    \/ SetLevel(t)
    \/ SetPropagate(t)
    \/ NewErrorHandler(t)
    \/ NewGeneralHandler(t)
    \/ RaiseOSError(t)
    \/ NewStreamHandler(t)
    \/ AddGeneralHandler(t)
    \/ AddErrorHandler(t)
    \/ AddStreamHandler(t)
    \/ Return(t)

\* One step of one thread inside get_logger.
Step(t) ==
    \/ \E lv \in Levels, o \in Overrides : Acquire(t, lv, o)
    \/ Body(t)

\* Threads call get_logger through any factory of the process.
Next ==
    \E t \in Threads :
        \/ \E f \in Factories, n \in Names : Call(t, f, n)
        \/ Step(t)

Spec == Init /\ [][Next]_vars

\* Threads call get_logger through one factory only.
NextOneFactory ==
    \E t \in Threads :
        \/ \E n \in Names : Call(t, 1, n)
        \/ Step(t)

SpecOneFactory == Init /\ [][NextOneFactory]_vars

\* The levels of the calls whose progress is followed: the one of the demo and
\* the one the docstring of get_logger names.
DemoLevels == {DEBUG, INFO}

\* with self._lock: as the calls followed for progress enter it.
Enter(t) == \E lv \in DemoLevels, o \in AllOrNone : Acquire(t, lv, o)

\* Threads call get_logger for one name through one factory.
NextOneName ==
    \E t \in Threads :
        \/ Call(t, 1, "x")
        \/ Enter(t)
        \/ Body(t)

\* Fair scheduling: a thread inside the body of get_logger keeps running, and
\* a thread waiting at `with self._lock` gets the lock if it is free again and
\* again.
Fairness ==
    \A t \in Threads : WF_vars(Body(t)) /\ SF_vars(Enter(t))

SpecFair == Init /\ [][NextOneName]_vars /\ Fairness

\* The demo: threads call logger_factory.get_logger(__name__, ...) through the
\* one factory and log through the loggers of the registry.
NextLogging ==
    \E t \in Threads :
        \/ Call(t, 1, "x")
        \/ \E lv \in Levels, o \in AllOrNone : Acquire(t, lv, o)
        \/ Body(t)
        \/ \E k \in LoggerKeys, levelno \in Levels : Log(t, k, levelno)

SpecLogging == Init /\ [][NextLogging]_vars

\* =================================================================== claims
\* No get_logger call is in progress.
Quiescent == \A t \in Threads : pc[t] = "idle"

\* Thread t takes a step.
Moves(t) == pc'[t] # pc[t]

\* Some call for logger k has returned.
Returned(k) == lowest[k] # NOTSET

IsFileSink(h) == h.class = "ConcurrentTimedRotatingFileHandler"
IsGeneralSink(h) == IsFileSink(h) /\ h.level = NOTSET
IsErrorSink(h) == IsFileSink(h) /\ h.level = ERROR
IsConsoleSink(h) == h.class = "StreamHandler"

\* hs is one sink set: general file sink, error file sink, console sink.
IsSinkSet(hs) ==
    /\ Len(hs) = 3
    /\ IsGeneralSink(hs[1])
    /\ IsErrorSink(hs[2])
    /\ IsConsoleSink(hs[3])

CountSinks(hs, P(_)) == Cardinality({i \in 1..Len(hs) : P(hs[i])})

\* C1: with one factory, however the steps of the threads racing for one name
\* interleave, no logger ever holds more than 3 sinks, and once every call is
\* over a logger that some call returned holds exactly the 3 sinks of one set
\* (general file, error file, console).
C1_ExactlyThreeSinksUnderRace ==
    \A k \in LoggerKeys :
        /\ Len(handlers[k]) <= 3
        /\ (Quiescent /\ Returned(k)) => IsSinkSet(handlers[k])

\* Two first-time calls for one name are in flight: one has attached its three
\* sinks and is about to return, the other waits for the factory's lock.
C1_Witness ==
    \E t, u \in Threads :
        /\ t # u
        /\ pc[t] = "return"
        /\ pc[u] = "with_lock"
        /\ self[t] = self[u]
        /\ Logger(t) = Logger(u)
        /\ ~Returned(Logger(t))
        /\ IsSinkSet(handlers[Logger(t)])

\* C2: whatever factories the calls go through, no logger ever holds more than
\* one sink set: at most 3 sinks, at most one of each kind.
C2_AtMostOneSinkSet ==
    \A k \in LoggerKeys :
        /\ Len(handlers[k]) <= 3
        /\ CountSinks(handlers[k], IsGeneralSink) <= 1
        /\ CountSinks(handlers[k], IsErrorSink) <= 1
        /\ CountSinks(handlers[k], IsConsoleSink) <= 1

\* C3: once a call for a name has returned, its logger holds one sink set and
\* no step of any later call for that name, whatever its level and overrides,
\* changes the sequence of its sinks: a second call attaches nothing.
C3_SecondCallAttachesNothing ==
    [][\A k \in LoggerKeys :
          Returned(k) => (IsSinkSet(handlers[k]) /\ handlers'[k] = handlers[k])]_vars

\* A second call for a name whose first call has returned is about to return.
C3_Witness ==
    \E t \in Threads :
        /\ pc[t] = "return"
        /\ Returned(Logger(t))
        /\ calls = 2
        /\ IsSinkSet(handlers[Logger(t)])

\* The level a call for logger k that returns now must leave: its own level
\* if it is the first to return, else the lower of it and the lowest so far.
LowestWith(k, lv) == IF Returned(k) THEN Min(lowest[k], lv) ELSE lv

\* Some thread holds a factory lock in a call for logger k.
InProgress(k) ==
    \E t \in Threads : pc[t] \notin {"idle", "with_lock"} /\ Logger(t) = k

\* C4: the level of a logger that has sinks never increases; a call that is
\* about to return leaves the lower of its level and the lowest level of the
\* calls that returned before it; so between calls the level of a logger is
\* the minimum of the levels of the calls that returned it.
C4_LevelWidensNeverNarrows ==
    /\ [][\A k \in LoggerKeys :
             handlers[k] # <<>> => level'[k] <= level[k]]_vars
    /\ [](\A t \in Threads :
             pc[t] = "return" =>
                 level[Logger(t)] = LowestWith(Logger(t), args[t].level))
    /\ [](\A k \in LoggerKeys :
             (Returned(k) /\ ~InProgress(k)) => level[k] = lowest[k])

\* A later call asked for a less verbose level than the logger has: it is about
\* to return and the level is still the lower one.
C4_Witness ==
    \E t \in Threads :
        /\ pc[t] = "return"
        /\ Returned(Logger(t))
        /\ args[t].level > lowest[Logger(t)]
        /\ level[Logger(t)] = lowest[Logger(t)]

\* Thread t's call ends with the exception of a handler constructor.
Raises(t) ==
    pc[t] \in {"new_error_handler", "new_general_handler"} /\ pc'[t] = "idle"

\* C5: a first-time call whose sink construction fails ends without returning,
\* releases the lock and leaves its logger with no sink; and whenever no call
\* is in progress every logger has either no sink or all three.
C5_AllOrNothing ==
    /\ [][\A t \in Threads :
             Raises(t) =>
                 /\ handlers'[Logger(t)] = <<>>
                 /\ lowest' = lowest
                 /\ lock'[self[t]] = NoThread]_vars
    /\ [](Quiescent => \A k \in LoggerKeys : Len(handlers[k]) \in {0, 3})

\* A call has failed: its logger was set up (propagate off) and has no sink.
C5_Witness ==
    \E k \in LoggerKeys :
        /\ Quiescent
        /\ propagate[k] = FALSE
        /\ handlers[k] = <<>>

\* C6: a call that finds its logger with sinks takes the early return, and on
\* the way it changes no sink of any logger (file name, formatter, level
\* filter, order), no propagate flag and no other logger's level.
C6_RepeatCallFrame ==
    [][\A t \in Threads :
          /\ (pc[t] = "if_handlers" /\ handlers[Logger(t)] # <<>> /\ Moves(t))
                => pc'[t] = "if_level"
          /\ (pc[t] \in {"if_level", "lower"} /\ Moves(t))
                => pc'[t] \in {"lower", "return"}
          /\ (pc[t] \in {"if_handlers", "if_level", "lower", "return"} /\ Moves(t))
                => /\ handlers' = handlers
                   /\ propagate' = propagate
                   /\ \A j \in LoggerKeys \ {Logger(t)} : level'[j] = level[j]]_vars

\* A repeat call that passes other file names and formatters than the ones the
\* logger's sinks were built with has lowered the level and is about to return.
C6_Witness ==
    \E t \in Threads :
        /\ pc[t] = "return"
        /\ Returned(Logger(t))
        /\ handlers[Logger(t)][1].filename # final_log_file_name(Factory(t), args[t])
        /\ handlers[Logger(t)][2].filename # final_error_log_file_name(Factory(t), args[t])
        /\ handlers[Logger(t)][1].formatter # final_file_formatter(Factory(t), args[t])
        /\ handlers[Logger(t)][3].formatter # final_stream_formatter(Factory(t), args[t])
        /\ level[Logger(t)] < lowest[Logger(t)]

\* What the claim takes an override to resolve to: the value passed whenever
\* one is passed, the factory default otherwise.
Supplied(v, default) == IF v # None THEN v ELSE default

\* C7: the sinks a first-time call builds take every override the call
\* supplies, whatever its value, and the factory default for the others.
C7_EverySuppliedOverrideWins ==
    \A t \in Threads :
        pc[t] = "add_general" =>
            /\ general_log_file_handler(Factory(t), args[t]).filename =
                 Supplied(args[t].log_file_name, Factory(t).log_files_prefix \o ".log")
            /\ error_log_file_handler(Factory(t), args[t]).filename =
                 Supplied(args[t].error_log_file_name,
                          Factory(t).log_files_prefix \o ".error.log")
            /\ general_log_file_handler(Factory(t), args[t]).formatter =
                 Supplied(args[t].file_log_formatter, Factory(t).file_log_formatter)
            /\ error_log_file_handler(Factory(t), args[t]).formatter =
                 Supplied(args[t].file_log_formatter, Factory(t).file_log_formatter)
            /\ stream_handler(Factory(t), args[t]).formatter =
                 Supplied(args[t].stream_log_formatter, Factory(t).stream_log_formatter)

\* C8: every console sink attached to a logger writes to standard output.
C8_ConsoleWritesToStdout ==
    \A k \in LoggerKeys : \A i \in 1..Len(handlers[k]) :
        IsConsoleSink(handlers[k][i]) => handlers[k][i].stream = "sys.stdout"

\* C9: a call with the empty name never gets to configure a logger: it never
\* returns, and the root logger keeps its level, its propagate flag and its
\* empty list of sinks.
C9_EmptyNameRejected ==
    /\ \A t \in Threads :
          args[t].name = "" => pc[t] \in {"idle", "with_lock", "getLogger"}
    /\ handlers["root"] = <<>>
    /\ level["root"] = WARNING
    /\ propagate["root"] = TRUE

\* C10: no file sink attached to a logger has a negative retention count.
C10_NoNegativeRetention ==
    \A k \in LoggerKeys : \A i \in 1..Len(handlers[k]) :
        IsFileSink(handlers[k][i]) => handlers[k][i].backupCount >= 0

\* C11: in every state, the states in the middle of an attachment included, a
\* logger that has a sink does not propagate to its parent, and no step ever
\* turns the propagate flag of a logger back on.
C11_SinksImplyNoPropagation ==
    /\ [](\A k \in LoggerKeys : handlers[k] # <<>> => propagate[k] = FALSE)
    /\ [][\A k \in LoggerKeys : propagate[k] = FALSE => propagate'[k] = FALSE]_vars

\* A first-time call has attached the first of its three sinks.
C11_Witness ==
    \E t \in Threads :
        /\ pc[t] = "add_error"
        /\ Len(handlers[Logger(t)]) = 1
        /\ propagate[Logger(t)] = FALSE

\* Logger k has its three sinks.
Configured(k) == Len(handlers[k]) = 3

\* The i-th sink of logger k, as it appears among the sinks of a record.
Sink(k, i) == <<k, i, handlers[k][i].formatter>>

\* C12: the handler attached second, the error file handler, has level ERROR
\* whatever the level of its logger; a CRITICAL record logged on a configured
\* logger is emitted by it and an INFO record is not, for every level the
\* logger may have; and no INFO record that was logged reached an error sink.
C12_ErrorSinkFilterIsError ==
    /\ \A k \in LoggerKeys :
          /\ Len(handlers[k]) >= 2 =>
                /\ IsFileSink(handlers[k][2])
                /\ handlers[k][2].level = ERROR
          /\ Configured(k) =>
                /\ Sink(k, 2) \in log(k, CRITICAL)
                /\ Sink(k, 2) \notin log(k, INFO)
    /\ emitted.levelno = INFO => \A s \in emitted.sinks : s[2] # 2

\* A CRITICAL record was logged on a configured logger whose own level is
\* CRITICAL, and the error file sink emitted it.
C12_Witness ==
    /\ emitted.levelno = CRITICAL
    /\ Configured(emitted.logger)
    /\ level[emitted.logger] = CRITICAL
    /\ Sink(emitted.logger, 2) \in emitted.sinks

\* C13: on a configured logger of level M a record below M is emitted by no
\* sink and rendered by no formatter; a record of level S >= M is emitted by
\* the general file sink and the console sink, each rendering it with its own
\* formatter, and by the error file sink exactly when S >= ERROR.
C13_BelowThresholdNothing ==
    \A k \in LoggerKeys : \A S \in Levels :
        Configured(k) =>
            /\ S < level[k] => log(k, S) = {}
            /\ S >= level[k] =>
                  log(k, S) = {Sink(k, 1), Sink(k, 3)} \cup
                              (IF S >= ERROR THEN {Sink(k, 2)} ELSE {})

\* A DEBUG record was logged on a configured logger of level INFO and no sink
\* emitted it.
C13_Witness ==
    /\ emitted.levelno = DEBUG
    /\ emitted.logger \in LoggerKeys
    /\ Configured(emitted.logger)
    /\ level[emitted.logger] = INFO
    /\ emitted.sinks = {}

\* A record is logged.
Logged == emitted' # emitted

\* C14: a thread outside get_logger can log on every logger of the registry
\* in every state, whoever holds a factory lock; logging changes no lock; and
\* a lock changes hands only in a step of a thread inside get_logger on that
\* factory.
C14_LoggingNeverTakesTheLock ==
    /\ [](\A t \in Threads : \A k \in loggerDict : \A S \in Levels :
             pc[t] = "idle" => ENABLED Log(t, k, S))
    /\ [][Logged => lock' = lock]_vars
    /\ [][\A f \in Factories :
             lock'[f] # lock[f] =>
                 \E t \in Threads : pc[t] # "idle" /\ self[t] = f /\ Moves(t)]_vars

\* A repeat call has lowered the level of its logger to DEBUG and still holds
\* the lock; meanwhile a DEBUG record was logged and emitted.
C14_Witness ==
    \E t \in Threads :
        /\ pc[t] = "return"
        /\ lock[self[t]] = t
        /\ Returned(Logger(t))
        /\ lowest[Logger(t)] > DEBUG
        /\ level[Logger(t)] = DEBUG
        /\ emitted.logger = Logger(t)
        /\ emitted.levelno = DEBUG
        /\ emitted.sinks # {}

\* The sinks a first-time call through factory fac with arguments a attaches.
SinksOf(fac, a) ==
    <<general_log_file_handler(fac, a),
      error_log_file_handler(fac, a),
      stream_handler(fac, a)>>

IsPrefix(s, r) == Len(s) <= Len(r) /\ \A i \in 1..Len(s) : s[i] = r[i]

\* Thread t is on the first-time path of get_logger, past `if logger.handlers`.
Configuring(t) ==
    pc[t] \in {"setLevel", "propagate", "new_error_handler", "new_general_handler",
               "new_stream_handler", "add_general", "add_error", "add_stream"}

FileSink(fac, filename, formatter, filter) ==
    [class |-> "ConcurrentTimedRotatingFileHandler",
     filename |-> filename, when |-> "midnight",
     backupCount |-> fac.backup_count, encoding |-> fac.encoding,
     formatter |-> formatter, level |-> filter]

\* C16: a first-time call attaches, in this order, the general file sink (no
\* level filter, effective file name and file formatter), the error file sink
\* (level filter ERROR, effective error file name, the same formatter) and
\* the console sink (effective stream formatter, no level filter), the file
\* sinks rotating at midnight with the factory's backup count and encoding;
\* when the third sink is attached the logger has the level of the call and
\* the call goes on to return.
C16_FirstCallAttachesThreeInOrder ==
    [][\A t \in Threads :
          LET k == Logger(t)
              fac == Factory(t)
              G == FileSink(fac, final_log_file_name(fac, args[t]),
                            final_file_formatter(fac, args[t]), NOTSET)
              E == FileSink(fac, final_error_log_file_name(fac, args[t]),
                            final_file_formatter(fac, args[t]), ERROR)
          IN  /\ (pc[t] = "add_general" /\ Moves(t)) => handlers'[k] = <<G>>
              /\ (pc[t] = "add_error" /\ Moves(t)) => handlers'[k] = <<G, E>>
              /\ (pc[t] = "add_stream" /\ Moves(t)) =>
                    /\ Len(handlers'[k]) = 3
                    /\ SubSeq(handlers'[k], 1, 2) = <<G, E>>
                    /\ IsConsoleSink(handlers'[k][3])
                    /\ handlers'[k][3].formatter = final_stream_formatter(fac, args[t])
                    /\ handlers'[k][3].level = NOTSET
                    /\ level'[k] = args[t].level
                    /\ pc'[t] = "return"]_vars

\* A first-time call with level WARNING that passed a general file name only
\* has attached its three sinks and is about to return.
C16_Witness ==
    \E t \in Threads :
        /\ pc[t] = "return"
        /\ ~Returned(Logger(t))
        /\ args[t].level = WARNING
        /\ args[t].log_file_name = "custom.log"
        /\ args[t].error_log_file_name = None
        /\ level[Logger(t)] = WARNING
        /\ handlers[Logger(t)] = SinksOf(Factory(t), args[t])

\* The level and the propagate flag a logger has before any call.
Unconfigured(k) ==
    /\ level[k] = (IF k = "root" THEN WARNING ELSE NOTSET)
    /\ propagate[k] = TRUE

\* C17: a first-time call that fails changes nothing: whenever no call is in
\* progress a logger without sinks has the level and the propagate flag it had
\* before any call (not the level of the failed call and FALSE).
C17_FailureLeavesLoggerUntouched ==
    Quiescent => \A k \in LoggerKeys : handlers[k] = <<>> => Unconfigured(k)

\* C18: a held lock always belongs to a thread inside the body of get_logger
\* on that factory; every step that ends a call (early return, normal return,
\* exception of a constructor) releases the lock; and under fair scheduling a
\* call waiting for the lock gets it and every call ends.
C18_LockReleasedAndProgress ==
    /\ [](\A f \in Factories :
             lock[f] # NoThread =>
                 /\ pc[lock[f]] \notin {"idle", "with_lock"}
                 /\ self[lock[f]] = f)
    /\ [][\A t \in Threads :
             (pc[t] # "idle" /\ pc'[t] = "idle") =>
                 (lock[self[t]] = t /\ lock'[self[t]] = NoThread)]_vars
    /\ \A t \in Threads :
          /\ (pc[t] = "with_lock") ~> (pc[t] = "getLogger")
          /\ (pc[t] # "idle") ~> (pc[t] = "idle")

\* A call waits for the lock while the call that holds it is about to build a
\* file handler, which may fail.
C18_Witness ==
    \E t, u \in Threads :
        /\ pc[t] = "with_lock"
        /\ self[t] = self[u]
        /\ lock[self[t]] = u
        /\ pc[u] = "new_general_handler"

\* C19: a call that finds its logger without sinks but already set up by a
\* call that failed sets the level to its own, whatever the failed call left;
\* while it configures the logger the level is its own and the sinks are the
\* first of its own; and the first call for a name that gets to return leaves
\* exactly its own three sinks and exactly its own level.
C19_RetryAfterFailure ==
    /\ [][\A t \in Threads :
             (pc[t] = "setLevel" /\ Moves(t) /\ ~propagate[Logger(t)]) =>
                 level'[Logger(t)] = args[t].level]_vars
    /\ [](\A t \in Threads :
             (Configuring(t) /\ pc[t] # "setLevel") =>
                 /\ level[Logger(t)] = args[t].level
                 /\ IsPrefix(handlers[Logger(t)], SinksOf(Factory(t), args[t])))
    /\ [](\A t \in Threads :
             (pc[t] = "return" /\ ~Returned(Logger(t))) =>
                 /\ handlers[Logger(t)] = SinksOf(Factory(t), args[t])
                 /\ level[Logger(t)] = args[t].level)

\* The other call, also for "x", has failed (no call for "x" has returned and
\* the root logger is untouched); the retry, with level ERROR and all four
\* overrides, has attached its sinks and is about to return.
C19_Witness ==
    \E t \in Threads :
        /\ pc[t] = "return"
        /\ calls = 2
        /\ \A u \in Threads \ {t} : pc[u] = "idle"
        /\ Logger(t) = "x"
        /\ ~Returned("x")
        /\ Unconfigured("root")
        /\ args[t].level = ERROR
        /\ args[t].error_log_file_name = "custom.error.log"
        /\ level["x"] = ERROR
        /\ IsSinkSet(handlers["x"])

\* C20: whatever factories the calls go through, a call that is about to return
\* returns a logger with the three sinks of a set attached.
C20_ReturnedLoggerIsComplete ==
    \A t \in Threads :
        pc[t] = "return" =>
            /\ Len(handlers[Logger(t)]) >= 3
            /\ CountSinks(handlers[Logger(t)], IsGeneralSink) >= 1
            /\ CountSinks(handlers[Logger(t)], IsErrorSink) >= 1
            /\ CountSinks(handlers[Logger(t)], IsConsoleSink) >= 1

====
